---- MODULE Spec2Model ----
(***************************************************************************)
(* Model of jmc's compile pipeline (src/jmc/compile.py) and of the event   *)
(* binding of its built-in function library                                *)
(* (src/jmc/compile/command/jmc_function_mixin.py).                        *)
(*                                                                         *)
(* Strings are sequences of one-character strings, so that split, strip,   *)
(* replace, lower and startswith are computed character by character.      *)
(***************************************************************************)
EXTENDS Integers, Sequences, FiniteSets, TLC

(***************************************************************************)
(* Bounds of the model.                                                    *)
(***************************************************************************)
\* number of compile() calls of one run of the model
MaxCompiles ==
    2

\* number of add_events() calls of one compilation
MaxEvents ==
    3

(***************************************************************************)
(* String helpers (Python str methods used by the source).                 *)
(***************************************************************************)
Whitespace ==
    {" ", "\t", "\r", "\n"}

\* index of the first occurrence of character c in s, 0 when there is none
FirstIndex(s, c) ==
    IF \E i \in 1..Len(s) : s[i] = c
    THEN CHOOSE i \in 1..Len(s) : s[i] = c /\ \A j \in 1..(i - 1) : s[j] # c
    ELSE 0

\* str.split(c): n occurrences of c give n + 1 parts, "" gives <<"">>
RECURSIVE Split(_, _)
Split(s, c) ==
    LET i == FirstIndex(s, c)
    IN  IF i = 0
        THEN <<s>>
        ELSE <<SubSeq(s, 1, i - 1)>> \o Split(SubSeq(s, i + 1, Len(s)), c)

\* str.strip(): leading and trailing whitespace removed
RECURSIVE Strip(_)
Strip(s) ==
    IF s = <<>> THEN s
    ELSE IF s[1] \in Whitespace THEN Strip(Tail(s))
    ELSE IF s[Len(s)] \in Whitespace THEN Strip(SubSeq(s, 1, Len(s) - 1))
    ELSE s

\* str.startswith(p)
StartsWith(s, p) ==
    /\ Len(p) <= Len(s)
    /\ SubSeq(s, 1, Len(p)) = p

\* sep.join(parts)
RECURSIVE Join(_, _)
Join(parts, sep) ==
    IF parts = <<>> THEN <<>>
    ELSE IF Len(parts) = 1 THEN parts[1]
    ELSE parts[1] \o sep \o Join(Tail(parts), sep)

\* str.replace(old, new): every non-overlapping occurrence, left to right
RECURSIVE Replace(_, _, _)
Replace(s, old, new) ==
    IF s = <<>> THEN s
    ELSE IF StartsWith(s, old)
         THEN new \o Replace(SubSeq(s, Len(old) + 1, Len(s)), old, new)
         ELSE <<s[1]>> \o Replace(Tail(s), old, new)

\* str.lower() on the letters the model uses
LowerChar(c) ==
    CASE c = "A" -> "a"
      [] c = "B" -> "b"
      [] c = "F" -> "f"
      [] OTHER -> c

Lower(s) ==
    [i \in 1..Len(s) |-> LowerChar(s[i])]

(***************************************************************************)
(* The certificate (compile.py).                                           *)
(***************************************************************************)
\* JMC_CERT_FILE_NAME = 'jmc.txt'
JMC_CERT_FILE_NAME ==
    <<"j", "m", "c", ".", "t", "x", "t">>

K_LOAD ==
    <<"L", "O", "A", "D">>

K_TICK ==
    <<"T", "I", "C", "K">>

K_PRIVATE ==
    <<"P", "R", "I", "V", "A", "T", "E">>

K_VAR ==
    <<"V", "A", "R">>

K_INT ==
    <<"I", "N", "T">>

\* the keys of get_cert()'s dictionary, in insertion order
CertKeys ==
    <<K_LOAD, K_TICK, K_PRIVATE, K_VAR, K_INT>>

CertKeySet ==
    {CertKeys[i] : i \in 1..Len(CertKeys)}

\* the class attributes of DataPack as the class body sets them
DefaultDataPack ==
    [LOAD_NAME    |-> <<"_", "_", "l", "o", "a", "d", "_", "_">>,
     TICK_NAME    |-> <<"_", "_", "t", "i", "c", "k", "_", "_">>,
     PRIVATE_NAME |-> <<"_", "_", "p", "r", "i", "v", "a", "t", "e", "_", "_">>,
     VAR_NAME     |-> <<"_", "_", "v", "a", "r", "i", "a", "b", "l", "e", "_", "_">>,
     INT_NAME     |-> <<"_", "_", "i", "n", "t", "_", "_">>]

\* get_cert(): the certificate configuration of the current DataPack class info
get_cert(dp) ==
    (K_LOAD :> dp.LOAD_NAME) @@ (K_TICK :> dp.TICK_NAME)
        @@ (K_PRIVATE :> dp.PRIVATE_NAME) @@ (K_VAR :> dp.VAR_NAME)
        @@ (K_INT :> dp.INT_NAME)

\* cert_config_to_string with every line ended by '\n' instead of joined
cert_config_to_string_NewlineEnded(cert_config) ==
    Join([i \in 1..Len(CertKeys) |->
             CertKeys[i] \o <<"=">> \o cert_config[CertKeys[i]]],
         <<"\n">>) \o <<"\n">>

\* cert_config_to_string: '\n'.join(f"{key}={value}" ...) in insertion order
cert_config_to_string(cert_config) ==
    Join([i \in 1..Len(CertKeys) |->
             CertKeys[i] \o <<"=">> \o cert_config[CertKeys[i]]],
         <<"\n">>)

\* "key, value = line.split('=')" raises ValueError on a line that does not
\* split into exactly two parts
raises_ValueError(string) ==
    LET lines == Split(string, "\n")
    IN  \E i \in 1..Len(lines) : Len(Split(lines[i], "=")) # 2

\* string_to_cert_config: one key=value per line, key and value stripped, a
\* later line of the same key replacing an earlier one
string_to_cert_config(string) ==
    LET lines == Split(string, "\n")
        parts(i) == Split(lines[i], "=")
        keyOf(i) == Strip(parts(i)[1])
        keys == {keyOf(i) : i \in 1..Len(lines)}
        last(k) == CHOOSE i \in 1..Len(lines) :
                      /\ keyOf(i) = k
                      /\ \A j \in (i + 1)..Len(lines) : keyOf(j) # k
    IN  [k \in keys |-> Strip(parts(last(k))[2])]

\* dict.get(key, default)
DictGet(d, key, default) ==
    IF key \in DOMAIN d THEN d[key] ELSE default


(***************************************************************************)
(* State.                                                                  *)
(***************************************************************************)
VARIABLES
    pc,          \* position of the running compile(), "idle" between calls
    config,      \* the configuration dictionary of the running compile()
    result,      \* how the last compile() ended
    compiles,    \* number of compile() calls so far
    DataPack,    \* the class attributes DataPack.*_NAME (process-wide)
    cert_config, \* read_cert's local cert_config
    datapack,    \* lexer.datapack
    load_json,   \* build's local load_json
    tick_json,   \* build's local tick_json
    folder,      \* <output>/data/<namespace>, per namespace
    tagsFolder,  \* <output>/data/minecraft/tags/functions exists
    loadTag,     \* .../tags/functions/load.json
    tickTag,     \* .../tags/functions/tick.json
    packMeta,    \* <output>/pack.mcmeta
    written,     \* per namespace, the cert_config of the last make_cert
    log,         \* the steps the running (or last) compile() has taken
    used_command,      \* datapack.used_command
    objectives,        \* datapack objectives, in registration order
    private_functions, \* datapack.private_functions["on_event"]
    functions,         \* the function bodies generated by add_raw_private_function
    tick_commands,     \* the per-tick dispatch list
    events,            \* the add_events calls so far
    source,            \* the Item that create_new_item copies from
    item_result        \* the last create_item / create_new_item call and its outcome

fsVars ==
    <<folder, tagsFolder, loadTag, tickTag, packMeta>>

compileVars ==
    <<pc, config, result, compiles, DataPack, cert_config, datapack,
      load_json, tick_json, folder, tagsFolder, loadTag, tickTag, packMeta,
      written, log>>

eventVars ==
    <<used_command, objectives, private_functions, functions, tick_commands,
      events>>

itemVars ==
    <<source, item_result>>

vars ==
    <<compileVars, eventVars, itemVars>>

(***************************************************************************)
(* Values of the files and of the configuration.                           *)
(***************************************************************************)
\* a path that is no file
NoFile ==
    [file |-> FALSE]

\* a text file and its content
File(content) ==
    [file |-> TRUE, content |-> content]

\* a path that is no directory
NoDir ==
    [dir |-> FALSE]

\* a tag file whose content json.loads rejects (JSONDecodeError)
MalformedJson ==
    [file |-> TRUE, valid |-> FALSE]

\* a tag file whose content json.loads turns into the dictionary json
JsonFile(json) ==
    [file |-> TRUE, valid |-> TRUE, json |-> json]

EmptyDict ==
    [k \in {} |-> <<>>]

\* the namespace names of the configurations; NS1 is a proper prefix of NS2
NS1 ==
    <<"a">>

NS2 ==
    <<"a", "b">>

Namespaces ==
    {NS1, NS2}

\* config: the flat mapping of string options (output and target are fixed)
Configs ==
    {[namespace |-> n, pack_format |-> <<"7">>, description |-> n] :
        n \in Namespaces}

\* a namespace directory as make_cert leaves it: the certificate alone
CertOnly(cert_str) ==
    [dir |-> TRUE, cert |-> File(cert_str), functions |-> EmptyDict, jsons |-> EmptyDict,
     other |-> {}]

\* certificate files a namespace directory may hold before the first compile
CustomCert ==
    cert_config_to_string(
        (K_LOAD :> <<"l">>) @@ (K_TICK :> <<"t">>) @@ (K_PRIVATE :> <<"p">>)
            @@ (K_VAR :> <<"v">>) @@ (K_INT :> <<"i">>))

InitCerts ==
    { cert_config_to_string(get_cert(DefaultDataPack)),
      CustomCert,
      \* LOAD alone, padded with blanks
      <<"L", "O", "A", "D", " ", "=", " ", "m", " ">>,
      \* two '=' on a line
      <<"L", "O", "A", "D", "=", "m", "=", "m">>,
      \* a line without '='
      <<"j", "u", "n", "k">>,
      \* a trailing newline: the last line is empty
      <<"L", "O", "A", "D", "=", "m", "\n">>,
      \* an empty file
      <<>> }

StaleFunctions ==
    (<<"o", "l", "d">> :> <<"s", "a", "y">>)

InitFolders1 ==
    {NoDir}
        \cup {[dir |-> TRUE, cert |-> NoFile, functions |-> EmptyDict,
               jsons |-> EmptyDict, other |-> {"hand_made"}]}
        \cup {[dir |-> TRUE, cert |-> File(c), functions |-> StaleFunctions,
               jsons |-> EmptyDict, other |-> {}] : c \in InitCerts}

InitFolders2 ==
    {NoDir, CertOnly(CustomCert)}

\* entries of a tag file's "values" list
E_NS1_OLD ==
    NS1 \o <<":", "x">>

E_NS2_FOO ==
    NS2 \o <<":", "y">>

E_OTHER ==
    <<"o", ":", "z">>

InitLoadTags ==
    { NoFile,
      MalformedJson,
      JsonFile([replace |-> FALSE]),
      JsonFile([values |-> <<E_OTHER, E_NS1_OLD>>]),
      JsonFile([values |-> <<E_NS1_OLD, E_NS2_FOO, E_OTHER, E_NS1_OLD>>,
                replace |-> FALSE]) }

InitTickTags ==
    { NoFile,
      MalformedJson,
      JsonFile([values |-> <<E_NS1_OLD, E_OTHER>>]) }

\* the Output Model a successful Lexer(config) leaves: functions and JSON
\* documents by path, <<>> being an empty content
Datapacks(dp) ==
    { [functions |-> (dp.LOAD_NAME :> <<"c">>), jsons |-> EmptyDict],
      [functions |-> (dp.LOAD_NAME :> <<"c">>) @@ (dp.TICK_NAME :> <<"c">>)
                        @@ (<<"f">> :> <<"c">>),
       jsons |-> (<<"j">> :> <<"c">>)],
      [functions |-> (dp.LOAD_NAME :> <<"c">>) @@ (dp.TICK_NAME :> <<>>)
                        @@ (<<"f">> :> <<>>),
       jsons |-> (<<"j">> :> <<>>)] }

(***************************************************************************)
(* compile(config) (compile.py), one action per step of its control flow.  *)
(***************************************************************************)
NoConfig ==
    [namespace |-> <<>>, pack_format |-> <<>>, description |-> <<>>]

NoDatapack ==
    [functions |-> EmptyDict, jsons |-> EmptyDict]

\* how compile() returns to its caller: normally or by an exception
Return(how) ==
    /\ pc' = "idle"
    /\ result' = how
    /\ cert_config' = EmptyDict
    /\ datapack' = NoDatapack
    /\ load_json' = EmptyDict
    /\ tick_json' = EmptyDict

\* Compile with the namespace directory cleared ahead of read_cert
Compile_ClearsFirst(c) ==
    /\ pc = "idle"
    /\ UNCHANGED <<eventVars, itemVars>>
    /\ log' = <<>>
    /\ compiles < MaxCompiles
    /\ compiles' = compiles + 1
    /\ config' = c
    /\ pc' = "read_cert"
    /\ result' = "running"
    /\ folder' = [folder EXCEPT ![c.namespace] = NoDir]
    /\ UNCHANGED <<DataPack, cert_config, datapack, load_json, tick_json,
                   tagsFolder, loadTag, tickTag, packMeta, written>>

\* compile(config): the call, up to read_cert(config)
Compile(c) ==
    /\ pc = "idle"
    /\ UNCHANGED <<eventVars, itemVars>>
    /\ log' = <<>>
    /\ compiles < MaxCompiles
    /\ compiles' = compiles + 1
    /\ config' = c
    /\ pc' = "read_cert"
    /\ result' = "running"
    /\ UNCHANGED <<DataPack, cert_config, datapack, load_json, tick_json,
                   fsVars, written>>

\* read_cert, namespace_folder.is_dir() false: cert_config = old_cert_config
ReadCert_NoDir ==
    /\ pc = "read_cert"
    /\ UNCHANGED <<eventVars, itemVars>>
    /\ log' = Append(log, "ReadCert_NoDir")
    /\ ~folder[config.namespace].dir
    /\ cert_config' = get_cert(DataPack)
    /\ pc' = "make_cert"
    /\ UNCHANGED <<config, result, compiles, DataPack, datapack, load_json,
                   tick_json, fsVars, written>>

\* ReadCert_NoCert without the check of line 117: the directory is deleted
ReadCert_NoCert_NoCheck ==
    /\ pc = "read_cert"
    /\ UNCHANGED <<eventVars, itemVars>>
    /\ log' = Append(log, "ReadCert_NoCert")
    /\ folder[config.namespace].dir
    /\ ~folder[config.namespace].cert.file
    /\ folder' = [folder EXCEPT ![config.namespace] = NoDir]
    /\ cert_config' = get_cert(DataPack)
    /\ pc' = "make_cert"
    /\ UNCHANGED <<config, result, compiles, DataPack, datapack, load_json,
                   tick_json, tagsFolder, loadTag, tickTag, packMeta, written>>

\* read_cert, the directory holds no certificate file: raise JMCBuildError
ReadCert_NoCert ==
    /\ pc = "read_cert"
    /\ UNCHANGED <<eventVars, itemVars>>
    /\ log' = Append(log, "ReadCert_NoCert")
    /\ folder[config.namespace].dir
    /\ ~folder[config.namespace].cert.file
    /\ Return("JMCBuildError")
    /\ UNCHANGED <<config, compiles, DataPack, fsVars, written>>

\* the five assignments DataPack.X_NAME = cert_config.get("X", old["X"])
AdoptCert(cfg, old) ==
    [LOAD_NAME    |-> DictGet(cfg, K_LOAD, old[K_LOAD]),
     TICK_NAME    |-> DictGet(cfg, K_TICK, old[K_TICK]),
     PRIVATE_NAME |-> DictGet(cfg, K_PRIVATE, old[K_PRIVATE]),
     VAR_NAME     |-> DictGet(cfg, K_VAR, old[K_VAR]),
     INT_NAME     |-> DictGet(cfg, K_INT, old[K_INT])]

\* read_cert, the certificate file is read and parsed (ValueError gives an
\* empty dictionary) and its names become the DataPack names
ReadCert_Read ==
    /\ pc = "read_cert"
    /\ UNCHANGED <<eventVars, itemVars>>
    /\ log' = Append(log, "ReadCert_Read")
    /\ folder[config.namespace].dir
    /\ folder[config.namespace].cert.file
    /\ LET cert_str == folder[config.namespace].cert.content
           old_cert_config == get_cert(DataPack)
           cfg == IF raises_ValueError(cert_str)
                  THEN EmptyDict
                  ELSE string_to_cert_config(cert_str)
       IN  /\ DataPack' = AdoptCert(cfg, old_cert_config)
           /\ cert_config' = get_cert(DataPack')
    /\ pc' = "rmtree"
    /\ UNCHANGED <<config, result, compiles, datapack, load_json, tick_json,
                   fsVars, written>>

\* read_cert: rmtree(namespace_folder)
ReadCert_Rmtree ==
    /\ pc = "rmtree"
    /\ UNCHANGED <<eventVars, itemVars>>
    /\ log' = Append(log, "ReadCert_Rmtree")
    /\ folder' = [folder EXCEPT ![config.namespace] = NoDir]
    /\ pc' = "make_cert"
    /\ UNCHANGED <<config, result, compiles, DataPack, cert_config, datapack,
                   load_json, tick_json, tagsFolder, loadTag, tickTag,
                   packMeta, written>>

\* make_cert that makes the directory and leaves the file unwritten
make_cert_NoFile ==
    /\ pc = "make_cert"
    /\ UNCHANGED <<eventVars, itemVars>>
    /\ log' = Append(log, "make_cert")
    /\ ~folder[config.namespace].dir
    /\ folder' = [folder EXCEPT ![config.namespace] =
                      [CertOnly(<<>>) EXCEPT !.cert = NoFile]]
    /\ written' = [written EXCEPT ![config.namespace] = cert_config]
    /\ pc' = "lex"
    /\ UNCHANGED <<config, result, compiles, DataPack, cert_config, datapack,
                   load_json, tick_json, tagsFolder, loadTag, tickTag,
                   packMeta>>

\* make_cert(cert_config, cert_file): mkdir(exist_ok=False), then the file
make_cert ==
    /\ pc = "make_cert"
    /\ UNCHANGED <<eventVars, itemVars>>
    /\ log' = Append(log, "make_cert")
    /\ ~folder[config.namespace].dir
    /\ folder' = [folder EXCEPT ![config.namespace] =
                      CertOnly(cert_config_to_string(cert_config))]
    /\ written' = [written EXCEPT ![config.namespace] = cert_config]
    /\ pc' = "lex"
    /\ UNCHANGED <<config, result, compiles, DataPack, cert_config, datapack,
                   load_json, tick_json, tagsFolder, loadTag, tickTag,
                   packMeta>>

\* read_header(config) and Lexer(config), which leaves lexer.datapack
Lex(d) ==
    /\ pc = "lex"
    /\ UNCHANGED <<eventVars, itemVars>>
    /\ log' = Append(log, "Lex")
    /\ datapack' = d
    /\ pc' = "build"
    /\ UNCHANGED <<config, result, compiles, DataPack, cert_config,
                   load_json, tick_json, fsVars, written>>

\* an error path that empties the namespace directory it had begun to fill
LexError_ClearsFolder ==
    /\ pc = "lex"
    /\ UNCHANGED <<eventVars, itemVars>>
    /\ log' = Append(log, "LexError")
    /\ Return("JMCError")
    /\ folder' = [folder EXCEPT ![config.namespace] =
                      [CertOnly(<<>>) EXCEPT !.cert = NoFile]]
    /\ UNCHANGED <<config, compiles, DataPack, tagsFolder, loadTag, tickTag,
                   packMeta, written>>

\* read_header or Lexer raises (syntax error, value error)
LexError ==
    /\ pc = "lex"
    /\ UNCHANGED <<eventVars, itemVars>>
    /\ log' = Append(log, "LexError")
    /\ Return("JMCError")
    /\ UNCHANGED <<config, compiles, DataPack, fsVars, written>>

\* read_func_tag raises JMCBuildError: JSONDecodeError, or KeyError "values"
raises_JMCBuildError(file) ==
    /\ file.file
    /\ \/ ~file.valid
       \/ "values" \notin DOMAIN file.json

\* read_func_tag that returns the file's values unfiltered
read_func_tag_NoFilter(file, c) ==
    IF file.file THEN file.json ELSE [values |-> <<>>]

\* read_func_tag that tests startswith(namespace), without the ':'
read_func_tag_NoColon(file, c) ==
    IF file.file
    THEN [file.json EXCEPT !.values =
             SelectSeq(@, LAMBDA value : ~StartsWith(value, c.namespace))]
    ELSE [values |-> <<>>]

\* read_func_tag(path, config): the tag's dictionary without the values that
\* start with "<namespace>:", {"values": []} when there is no file
read_func_tag(file, c) ==
    IF file.file
    THEN [file.json EXCEPT !.values =
             SelectSeq(@, LAMBDA value :
                 ~StartsWith(value, c.namespace \o <<":">>))]
    ELSE [values |-> <<>>]

\* Build_ReadTags with load.json rewritten before tick.json is read
Build_ReadTags_LoadWrittenFirst ==
    /\ pc = "build"
    /\ UNCHANGED <<eventVars, itemVars>>
    /\ log' = Append(log, "Build_ReadTags")
    /\ tagsFolder' = TRUE
    /\ IF raises_JMCBuildError(loadTag)
       THEN Return("JMCBuildError") /\ UNCHANGED loadTag
       ELSE IF raises_JMCBuildError(tickTag)
       THEN /\ Return("JMCBuildError")
            /\ loadTag' = JsonFile(
                   [read_func_tag(loadTag, config) EXCEPT !.values =
                       Append(@, config.namespace \o <<":">>
                                     \o DataPack.LOAD_NAME)])
       ELSE /\ load_json' = read_func_tag(loadTag, config)
            /\ tick_json' = read_func_tag(tickTag, config)
            /\ pc' = "write_load"
            /\ UNCHANGED <<result, cert_config, datapack, loadTag>>
    /\ UNCHANGED <<config, compiles, DataPack, folder, tickTag,
                   packMeta, written>>

\* build: mkdir of the tags folder and the two read_func_tag calls
Build_ReadTags ==
    /\ pc = "build"
    /\ UNCHANGED <<eventVars, itemVars>>
    /\ log' = Append(log, "Build_ReadTags")
    /\ tagsFolder' = TRUE
    /\ IF raises_JMCBuildError(loadTag) \/ raises_JMCBuildError(tickTag)
       THEN Return("JMCBuildError")
       ELSE /\ load_json' = read_func_tag(loadTag, config)
            /\ tick_json' = read_func_tag(tickTag, config)
            /\ pc' = "write_load"
            /\ UNCHANGED <<result, cert_config, datapack>>
    /\ UNCHANGED <<config, compiles, DataPack, folder, loadTag, tickTag,
                   packMeta, written>>

\* build: the load reference is appended and load.json written
Build_WriteLoad ==
    /\ pc = "write_load"
    /\ UNCHANGED <<eventVars, itemVars>>
    /\ log' = Append(log, "Build_WriteLoad")
    /\ load_json' = [load_json EXCEPT !.values =
           Append(@, config.namespace \o <<":">> \o DataPack.LOAD_NAME)]
    /\ loadTag' = JsonFile(load_json')
    /\ pc' = "write_tick"
    /\ UNCHANGED <<config, result, compiles, DataPack, cert_config, datapack,
                   tick_json, folder, tagsFolder, tickTag, packMeta, written>>

\* build: tick.json is written when the tick function exists and is not empty
Build_WriteTick ==
    /\ pc = "write_tick"
    /\ UNCHANGED <<eventVars, itemVars>>
    /\ log' = Append(log, "Build_WriteTick")
    /\ IF /\ DataPack.TICK_NAME \in DOMAIN datapack.functions
          /\ datapack.functions[DataPack.TICK_NAME] # <<>>
       THEN /\ tick_json' = [tick_json EXCEPT !.values =
                   Append(@, config.namespace \o <<":">> \o DataPack.TICK_NAME)]
            /\ tickTag' = JsonFile(tick_json')
       ELSE UNCHANGED <<tick_json, tickTag>>
    /\ pc' = "write_functions"
    /\ UNCHANGED <<config, result, compiles, DataPack, cert_config, datapack,
                   load_json, folder, tagsFolder, loadTag, packMeta, written>>

\* the entries of a dictionary whose content is not empty
NonEmpty(d) ==
    [k \in {x \in DOMAIN d : d[x] # <<>>} |-> d[k]]

\* Build_WriteFunctions that writes a file for every function
Build_WriteFunctions_EveryFunction ==
    /\ pc = "write_functions"
    /\ UNCHANGED <<eventVars, itemVars>>
    /\ log' = Append(log, "Build_WriteFunctions")
    /\ folder' = [folder EXCEPT ![config.namespace].functions =
                      datapack.functions @@ @]
    /\ pc' = "write_jsons"
    /\ UNCHANGED <<config, result, compiles, DataPack, cert_config, datapack,
                   load_json, tick_json, tagsFolder, loadTag, tickTag,
                   packMeta, written>>

\* build: one .mcfunction file per function with content
Build_WriteFunctions ==
    /\ pc = "write_functions"
    /\ UNCHANGED <<eventVars, itemVars>>
    /\ log' = Append(log, "Build_WriteFunctions")
    /\ folder' = [folder EXCEPT ![config.namespace].functions =
                      NonEmpty(datapack.functions) @@ @]
    /\ pc' = "write_jsons"
    /\ UNCHANGED <<config, result, compiles, DataPack, cert_config, datapack,
                   load_json, tick_json, tagsFolder, loadTag, tickTag,
                   packMeta, written>>

\* build: one .json file per JSON document with content
Build_WriteJsons ==
    /\ pc = "write_jsons"
    /\ UNCHANGED <<eventVars, itemVars>>
    /\ log' = Append(log, "Build_WriteJsons")
    /\ folder' = [folder EXCEPT ![config.namespace].jsons =
                      NonEmpty(datapack.jsons) @@ @]
    /\ pc' = "write_meta"
    /\ UNCHANGED <<config, result, compiles, DataPack, cert_config, datapack,
                   load_json, tick_json, tagsFolder, loadTag, tickTag,
                   packMeta, written>>

\* build: pack.mcmeta, after which compile() returns
Build_WriteMeta ==
    /\ pc = "write_meta"
    /\ UNCHANGED <<eventVars, itemVars>>
    /\ log' = Append(log, "Build_WriteMeta")
    /\ packMeta' = File([pack_format |-> config.pack_format,
                         description |-> config.description])
    /\ Return("ok")
    /\ UNCHANGED <<config, compiles, DataPack, folder, tagsFolder, loadTag,
                   tickTag, written>>

\* the process ends and a new one starts: the class attributes are the
\* class body's again, the files stay
Restart ==
    /\ pc = "idle"
    /\ UNCHANGED <<eventVars, itemVars>>
    /\ DataPack # DefaultDataPack
    /\ DataPack' = DefaultDataPack
    /\ UNCHANGED <<pc, config, result, compiles, cert_config, datapack,
                   load_json, tick_json, fsVars, written, log>>

(***************************************************************************)
(* EventMixin.add_events (jmc_function_mixin.py).                          *)
(***************************************************************************)
S_MINECRAFT ==
    <<"m", "i", "n", "e", "c", "r", "a", "f", "t", ".">>

\* criteria of the bindings: with and without the vendor prefix, differing in
\* letter case only, differing in ':' against '_' only
Criteria ==
    { S_MINECRAFT \o <<"f">>,
      <<"f">>,
      <<"F">>,
      <<"a", ":", "b">>,
      <<"a", "_", "b">>,
      <<"c">> }

\* the command lists of the bindings
CommandLists ==
    { <<[cmd |-> "c1"]>>, <<[cmd |-> "c2"]>>, <<[cmd |-> "c1"], [cmd |-> "c2"]>> }

\* criteria.replace("minecraft.", "")
StripVendor(criteria) ==
    Replace(criteria, S_MINECRAFT, <<>>)

\* count = criteria.lower().replace(":", "_"), criteria already stripped
CountOf(criteria) ==
    Replace(Lower(criteria), <<":">>, <<"_">>)

\* f"on_event_{hash_string_to_string(criteria, 7)}": the hash is a fixed
\* function of the string, taken to be free of collisions
Objective(criteria) ==
    [prefix |-> "on_event_", hash_of |-> criteria]

\* the entry of datapack.used_command that
\* is_never_used("on_event", parameters=[criteria]) looks up
UsedKey(criteria) ==
    <<"on_event", criteria>>

\* is_never_used: whether the call was never made before
is_never_used(criteria) ==
    UsedKey(criteria) \notin used_command

\* is_never_used marks the call as made
mark_used(criteria) ==
    used_command' = used_command \cup {UsedKey(criteria)}

\* f"scoreboard players set @s {objective} 0"
ResetCommand(objective) ==
    [cmd |-> "scoreboard players set @s 0", objective |-> objective]

\* f"execute as @a[scores={{{objective}=1..}}] at @s run {func_call}"
DispatchLine(objective, func_call) ==
    [cmd |-> "execute as @a[scores=1..] at @s run",
     objective |-> objective, func_call |-> func_call]

\* datapack.add_objective(objective, criteria)
add_objective(objective, criteria) ==
    objectives' = Append(objectives,
        [name |-> objective, criteria |-> criteria])

\* the call string add_raw_private_function returns
FuncCall(count) ==
    [function |-> "on_event", count |-> count]

\* datapack.add_raw_private_function("on_event", commands, count=count): a new
\* function object is stored under private_functions["on_event"][count]
add_raw_private_function(commands, count) ==
    /\ functions' = Append(functions, [count |-> count, body |-> commands])
    /\ private_functions' =
           (count :> Len(functions) + 1) @@ private_functions

\* datapack.add_tick_command(command)
add_tick_command(command) ==
    tick_commands' = Append(tick_commands, command)

\* the branch of add_events taken when is_never_used returns True
add_events_new(criteria, count, commands) ==
    LET objective == Objective(criteria)
    IN  /\ mark_used(criteria)
        /\ add_objective(objective, criteria)
        /\ add_raw_private_function(
               <<ResetCommand(objective)>> \o commands, count)
        /\ add_tick_command(DispatchLine(objective, FuncCall(count)))

\* an extension that puts the new commands in front of the body
add_events_extend_Prepend(count, commands) ==
    /\ functions' = [functions EXCEPT ![private_functions[count]].body =
                         commands \o @]
    /\ UNCHANGED <<used_command, objectives, private_functions,
                   tick_commands>>

\* the branch taken otherwise: private_functions["on_event"][count].extend
add_events_extend(count, commands) ==
    /\ functions' = [functions EXCEPT ![private_functions[count]].body =
                         @ \o commands]
    /\ UNCHANGED <<used_command, objectives, private_functions,
                   tick_commands>>

add_events(criteria_arg, commands) ==
    /\ Len(events) < MaxEvents
    /\ LET criteria == StripVendor(criteria_arg)
           count == CountOf(criteria)
       IN  /\ IF is_never_used(criteria)
              THEN add_events_new(criteria, count, commands)
              ELSE add_events_extend(count, commands)
           /\ events' = Append(events,
                  [criteria |-> criteria_arg, commands |-> commands])
    /\ UNCHANGED <<compileVars, itemVars>>

(***************************************************************************)
(* ItemMixin.create_new_item and ItemMixin.create_item                     *)
(* (jmc_function_mixin.py).                                                *)
(***************************************************************************)
S_MINECRAFT_COLON ==
    <<"m", "i", "n", "e", "c", "r", "a", "f", "t", ":">>

S_STICK ==
    <<"s", "t", "i", "c", "k">>

S_CUSTOM_NAME ==
    <<"c", "u", "s", "t", "o", "m", "_", "n", "a", "m", "e", "=">>

S_LORE ==
    <<"l", "o", "r", "e", "=", "[">>

\* no Item
NoItem ==
    [exists |-> FALSE]

\* Item(item_type, nbt, raw_nbt)
Item(item_type, nbt, raw_nbt) ==
    [exists |-> TRUE, item_type |-> item_type, nbt |-> nbt,
     raw_nbt |-> raw_nbt]

\* a Token of the source text
Token(t) ==
    [token |-> t]

\* error_token=None
NoToken ==
    [token |-> "None"]

\* datapack.token_dict_to_raw_js_object(nbt, tokenizer): the engine-native
\* text of a dictionary of tokens
token_dict_to_raw_js_object(nbt) ==
    [raw_js_object |-> nbt]

\* text with a score or selector substitution, which the formatter refuses
\* under is_allow_score_selector=False
IsDynamic(text) ==
    \E i \in 1..Len(text) : text[i] = "@"

\* str(FormattedText(text, ..., is_default_no_italic=True,
\* is_allow_score_selector=False)): the text component of a static text
FormattedText(text) ==
    <<"{">> \o text \o <<"}">>

\* the outcomes of a call
Returned(item) ==
    [kind |-> "Item", item |-> item]

JMCValueError(message, token) ==
    [kind |-> "JMCValueError", message |-> message, token |-> token]

UnboundLocalError(name) ==
    [kind |-> "UnboundLocalError", name |-> name]

\* a collision check that finds nothing
FirstConflict_None(nbt, modify_nbt) ==
    0

\* the first entry of modify_nbt whose key is in nbt, 0 when there is none
FirstConflict(nbt, modify_nbt) ==
    IF \E i \in 1..Len(modify_nbt) : modify_nbt[i].key \in DOMAIN nbt
    THEN CHOOSE i \in 1..Len(modify_nbt) :
             /\ modify_nbt[i].key \in DOMAIN nbt
             /\ \A j \in 1..(i - 1) : modify_nbt[j].key \notin DOMAIN nbt
    ELSE 0

\* nbt after "nbt[key] = value_token" for every entry of modify_nbt
RECURSIVE Overlay(_, _)
Overlay(nbt, modify_nbt) ==
    IF modify_nbt = <<>> THEN nbt
    ELSE Overlay((modify_nbt[1].key :> modify_nbt[1].value) @@ nbt,
                 Tail(modify_nbt))

\* create_new_item(item, modify_nbt, error_token): the outcome and the item
\* copied from as the call leaves it (nbt = dict(item.raw_nbt) is a copy)
create_new_item(item, modify_nbt, error_token) ==
    LET nbt == item.raw_nbt
        i == FirstConflict(nbt, modify_nbt)
        out == IF i # 0
               THEN JMCValueError(
                        [key |-> modify_nbt[i].key,
                         text |-> " is already inside the nbt"],
                        IF error_token = NoToken
                        THEN modify_nbt[i].value ELSE error_token)
               ELSE Returned(Item(item.item_type,
                        token_dict_to_raw_js_object(Overlay(nbt, modify_nbt)),
                        Overlay(nbt, modify_nbt)))
    IN  [out |-> out, item_after |-> item]

\* an item_type kept as given
StripItemType_Keep(item_type) ==
    item_type

\* create_item's item_type: a leading "minecraft:" is cut (item_type[10:])
StripItemType(item_type) ==
    IF StartsWith(item_type, S_MINECRAFT_COLON)
    THEN SubSeq(item_type, Len(S_MINECRAFT_COLON) + 1, Len(item_type))
    ELSE item_type

\* create_item, lines 79-91: the bracket components of name and lore
BracketComponents(args, lore_json) ==
    (IF args.displayName # <<>> /\ FormattedText(args.displayName) # <<>>
     THEN <<S_CUSTOM_NAME \o FormattedText(args.displayName)>>
     ELSE <<>>)
    \o
    (IF lore_json # <<>>
     THEN <<S_LORE \o Join(lore_json, <<",">>) \o <<"]">>>>
     ELSE <<>>)

\* create_item, lines 93-95
BracketNotation(bracket_components) ==
    IF bracket_components # <<>>
    THEN <<"[">> \o Join(bracket_components, <<",">>) \o <<"]">>
    ELSE <<>>

\* a final_nbt that takes every entry of nbt
FinalNbt_KeepAll(nbt) ==
    nbt

\* create_item, lines 98-102: the entries of nbt kept in final_nbt
FinalNbt(nbt) ==
    [k \in DOMAIN nbt \ {"custom_name", "lore"} |-> nbt[k]]

\* create_item(...) on self.args / self.raw_args = args and modify_nbt.
\* final_nbt is assigned inside "if bracket_components:" (line 97) and read
\* at lines 102 and 106-107.
create_item(args, modify_nbt) ==
    LET item_type == StripItemType(args.itemType)
        lores == IF args.lore.given THEN args.lore.lines ELSE <<>>
        lore_json == [i \in 1..Len(lores) |-> FormattedText(lores[i])]
        nbt0 == IF args.nbt.given THEN args.nbt.obj ELSE EmptyDict
        i == FirstConflict(nbt0, modify_nbt)
        nbt == Overlay(nbt0, modify_nbt)
        bracket_components == BracketComponents(args, lore_json)
    IN  IF \E l \in 1..Len(lores) : IsDynamic(lores[l])
        THEN JMCValueError([text |-> "score or selector in text"],
                           Token("lore"))
        ELSE IF i # 0
        THEN JMCValueError([key |-> modify_nbt[i].key,
                            text |-> " is already inside the nbt"],
                           modify_nbt[i].value)
        ELSE IF IsDynamic(args.displayName)
        THEN JMCValueError([text |-> "score or selector in text"],
                           Token("displayName"))
        ELSE IF bracket_components = <<>>
        THEN UnboundLocalError("final_nbt")
        ELSE Returned(Item(item_type \o BracketNotation(bracket_components),
                           token_dict_to_raw_js_object(FinalNbt(nbt)),
                           FinalNbt(nbt)))

\* the arguments of the calls
ItemTypes ==
    {S_MINECRAFT_COLON \o S_STICK, S_STICK}

DisplayNames ==
    {<<>>, <<"E">>}

Lores ==
    { [given |-> FALSE],
      [given |-> TRUE, lines |-> <<>>],
      [given |-> TRUE, lines |-> <<<<"x">>>>],
      [given |-> TRUE, lines |-> <<<<"x">>, <<"y">>>>],
      [given |-> TRUE, lines |-> <<<<"@">>>>] }

Nbts ==
    { [given |-> FALSE],
      [given |-> TRUE, obj |-> ("k" :> Token("t1"))],
      [given |-> TRUE, obj |-> ("custom_name" :> Token("t2"))
                                   @@ ("k" :> Token("t1"))],
      [given |-> TRUE, obj |-> ("lore" :> Token("t3"))] }

ModifyNbts ==
    { <<>>,
      <<[key |-> "k", value |-> Token("m1")]>>,
      <<[key |-> "j", value |-> Token("m2")],
        [key |-> "k", value |-> Token("m1")]>>,
      <<[key |-> "custom_name", value |-> Token("m3")]>> }

ItemArgs ==
    [itemType : ItemTypes, displayName : DisplayNames, lore : Lores,
     nbt : Nbts]

\* a built-in calls create_item and keeps the Item it returns; an error ends
\* the compilation, and the next one starts with no Item
CreateItem(args, modify_nbt) ==
    LET out == create_item(args, modify_nbt)
    IN  /\ item_result' = [fn |-> "create_item", args |-> args,
                           modify_nbt |-> modify_nbt, out |-> out]
        /\ source' = IF out.kind = "Item" THEN out.item ELSE NoItem
        /\ UNCHANGED <<compileVars, eventVars>>

\* a built-in calls create_new_item on a kept Item, and keeps the copy or not
CreateNewItem(modify_nbt, error_token, keep) ==
    /\ source.exists
    /\ LET r == create_new_item(source, modify_nbt, error_token)
       IN  /\ item_result' = [fn |-> "create_new_item", item |-> source,
                              modify_nbt |-> modify_nbt,
                              error_token |-> error_token,
                              out |-> r.out, item_after |-> r.item_after]
           /\ source' = IF r.out.kind # "Item" THEN NoItem
                        ELSE IF keep THEN r.out.item ELSE r.item_after
    /\ UNCHANGED <<compileVars, eventVars>>

InitItems ==
    /\ source = NoItem
    /\ item_result = [fn |-> "none"]

InitEvents ==
    /\ used_command = {}
    /\ objectives = <<>>
    /\ private_functions = EmptyDict
    /\ functions = <<>>
    /\ tick_commands = <<>>
    /\ events = <<>>

InitProcess ==
    /\ pc = "idle"
    /\ config = NoConfig
    /\ result = "none"
    /\ compiles = 0
    /\ DataPack = DefaultDataPack
    /\ cert_config = EmptyDict
    /\ datapack = NoDatapack
    /\ load_json = EmptyDict
    /\ tick_json = EmptyDict
    /\ packMeta = NoFile
    /\ written = [n \in Namespaces |-> EmptyDict]
    /\ log = <<>>

Init ==
    /\ InitProcess
    /\ InitEvents
    /\ InitItems
    /\ \E f1 \in InitFolders1, f2 \in InitFolders2 :
           folder = (NS1 :> f1) @@ (NS2 :> f2)
    /\ loadTag \in InitLoadTags
    /\ tickTag \in InitTickTags
    /\ tagsFolder = (loadTag.file \/ tickTag.file)

Next ==
    \/ \E c \in Configs : Compile(c)
    \/ ReadCert_NoDir
    \/ ReadCert_NoCert
    \/ ReadCert_Read
    \/ ReadCert_Rmtree
    \/ make_cert
    \/ \E d \in Datapacks(DataPack) : Lex(d)
    \/ LexError
    \/ Build_ReadTags
    \/ Build_WriteLoad
    \/ Build_WriteTick
    \/ Build_WriteFunctions
    \/ Build_WriteJsons
    \/ Build_WriteMeta
    \/ Restart

Spec ==
    Init /\ [][Next]_vars

\* one compilation's event bindings, on a process that has not compiled yet
InitCompilation ==
    /\ InitProcess
    /\ InitEvents
    /\ InitItems
    /\ folder = [n \in Namespaces |-> NoDir]
    /\ loadTag = NoFile
    /\ tickTag = NoFile
    /\ tagsFolder = FALSE

NextEvents ==
    \E criteria \in Criteria, commands \in CommandLists :
        add_events(criteria, commands)

SpecEvents ==
    InitCompilation /\ [][NextEvents]_vars

NextItems ==
    \/ \E args \in ItemArgs, modify_nbt \in ModifyNbts :
           CreateItem(args, modify_nbt)
    \/ \E modify_nbt \in ModifyNbts, error_token \in {NoToken, Token("e")},
          keep \in BOOLEAN :
           CreateNewItem(modify_nbt, error_token, keep)

SpecItems ==
    InitCompilation /\ [][NextItems]_vars

(***************************************************************************)
(* Properties of the certificate protocol.                                 *)
(***************************************************************************)
Range(seq) ==
    {seq[i] : i \in 1..Len(seq)}

\* the namespace directory of the running (or last) compile()
Target ==
    folder[config.namespace]

\* the positions of compile() after read_cert has made its check
AfterCheck ==
    {"rmtree", "make_cert", "lex", "build", "write_load", "write_tick",
     "write_functions", "write_jsons", "write_meta"}

\* C1: a compile into a namespace directory that holds no certificate file
\* ends with JMCBuildError and no step of it, from the call to the raise,
\* changes any file or directory.
C1_NoCertAbortsUntouched ==
    [][ /\ (pc = "idle" /\ pc' # "idle") =>
               (pc' = "read_cert" /\ fsVars' = fsVars)
        /\ (pc = "read_cert" /\ Target.dir /\ ~Target.cert.file) =>
               (/\ pc' = "idle"
                /\ result' = "JMCBuildError"
                /\ fsVars' = fsVars) ]_vars

\* a compile into a hand-made directory has ended with the build error
C1_Witness ==
    /\ pc = "idle"
    /\ result = "JMCBuildError"
    /\ log = <<"ReadCert_NoCert">>
    /\ Target.dir
    /\ ~Target.cert.file
    /\ Target.other = {"hand_made"}

\* C2: no step changes a namespace directory before read_cert's check of it
\* has completed, the step changes the directory of the configured namespace
\* only, and the directory is deleted only when its certificate file exists
\* and has been read into the DataPack names.
C2_NothingBeforeCertCheck ==
    [][ (folder' # folder) =>
            /\ pc \in AfterCheck
            /\ \A n \in Namespaces \ {config.namespace} : folder'[n] = folder[n]
            /\ (Target.dir /\ ~folder'[config.namespace].dir) =>
                   /\ pc = "rmtree"
                   /\ Target.cert.file
                   /\ cert_config = get_cert(DataPack)
                   /\ ~raises_ValueError(Target.cert.content) =>
                          \A k \in CertKeySet \cap
                                DOMAIN string_to_cert_config(Target.cert.content) :
                              cert_config[k] =
                                  string_to_cert_config(Target.cert.content)[k]
      ]_vars

\* the directory of a namespace with a certificate has just been deleted
C2_Witness ==
    /\ pc = "make_cert"
    /\ log = <<"ReadCert_Read", "ReadCert_Rmtree">>
    /\ ~Target.dir
    /\ DataPack.LOAD_NAME = <<"l">>

\* C3 as stated: in a compile into a namespace that has a certificate, the
\* fresh certificate is written only after the output has been regenerated.
C3_CertWrittenAfterRegeneration ==
    ("ReadCert_Read" \in Range(log) /\ "make_cert" \in Range(log)) =>
        \E i, j \in 1..Len(log) :
            /\ log[i] = "Build_WriteMeta"
            /\ log[j] = "make_cert"
            /\ i < j

\* the steps of a compile into a namespace that has a certificate, in order
CertifiedOrder ==
    <<"ReadCert_Read", "ReadCert_Rmtree", "make_cert", "Lex",
      "Build_ReadTags", "Build_WriteLoad", "Build_WriteTick",
      "Build_WriteFunctions", "Build_WriteJsons", "Build_WriteMeta">>

\* C3 (amended): in a compile into a namespace that has a certificate the
\* order is: read the certificate, delete the directory, write the fresh
\* certificate, regenerate. The directory is whole until the certificate is
\* read, absent after the delete, holds the fresh certificate of the adopted
\* names and nothing else when tokenizing starts, and still holds that
\* certificate when the compile has returned normally.
C3_ReadDeleteCertRegenerate ==
    (log # <<>> /\ log[1] = "ReadCert_Read") =>
        /\ \/ SubSeq(CertifiedOrder, 1, Len(log)) = log
           \/ log = SubSeq(CertifiedOrder, 1, 3) \o <<"LexError">>
        /\ pc = "rmtree" => (Target.dir /\ Target.cert.file)
        /\ pc = "make_cert" => ~Target.dir
        /\ pc \in {"lex", "build", "write_load", "write_tick",
                   "write_functions"} =>
               Target = CertOnly(cert_config_to_string(get_cert(DataPack)))
        /\ (pc = "idle" /\ result = "ok") =>
               /\ log = CertifiedOrder
               /\ Target.cert =
                      File(cert_config_to_string(written[config.namespace]))
        /\ pc \in {"write_jsons", "write_meta"} =>
               /\ Target.cert =
                      File(cert_config_to_string(get_cert(DataPack)))
               /\ Target.functions = NonEmpty(datapack.functions)

\* a compile into a namespace that had a certificate has returned normally
C3_Witness ==
    /\ pc = "idle"
    /\ result = "ok"
    /\ log = CertifiedOrder
    /\ DOMAIN Target.functions # {}

\* C4: when a compile writes the certificate of a namespace whose certificate
\* an earlier compile of the model wrote, the five DataPack names in effect,
\* the certificate configuration it records and the file it writes are those
\* the earlier compile recorded, and the file reads back as that
\* configuration.
C4_CertificateContinuity ==
    [][ (pc = "make_cert" /\ pc' = "lex"
            /\ written[config.namespace] # EmptyDict) =>
            LET prev == written[config.namespace]
                file == folder'[config.namespace].cert
            IN  /\ get_cert(DataPack) = prev
                /\ written'[config.namespace] = prev
                /\ file.file
                /\ ~raises_ValueError(file.content)
                /\ string_to_cert_config(file.content) = prev
                /\ DataPack' = DataPack ]_vars

\* the second of two compiles into the same namespace has written its
\* certificate, with a name that is not the default one
C4_Witness ==
    /\ compiles = 2
    /\ pc = "lex"
    /\ log = <<"ReadCert_Read", "ReadCert_Rmtree", "make_cert">>
    /\ config.namespace = NS1
    /\ written[NS2] = EmptyDict
    /\ ~folder[NS2].dir
    /\ DataPack.LOAD_NAME = <<"m">>
    /\ DataPack.TICK_NAME = DefaultDataPack.TICK_NAME

\* C5 as stated: a compile into a namespace whose directory does not exist
\* uses the default names and writes a certificate of the five defaults.
C5_FreshNamespaceUsesDefaults ==
    (pc = "lex" /\ log = <<"ReadCert_NoDir", "make_cert">>) =>
        /\ DataPack = DefaultDataPack
        /\ Target.cert =
               File(cert_config_to_string(get_cert(DefaultDataPack)))

\* C6 as stated: a certificate file that does not parse does not abort the
\* compile, which goes on to delete the directory, with the default value
\* for all five names.
C6_MalformedCertUsesDefaults ==
    (pc = "rmtree" /\ raises_ValueError(Target.cert.content)) =>
        DataPack = DefaultDataPack

\* the values a merge must keep: those that do not begin with "<ns>:",
\* verbatim and in their order
RECURSIVE KeptValues(_, _)
KeptValues(values, ns) ==
    IF values = <<>> THEN <<>>
    ELSE LET v == values[1]
             own == /\ Len(v) > Len(ns)
                    /\ \A i \in 1..Len(ns) : v[i] = ns[i]
                    /\ v[Len(ns) + 1] = ":"
         IN  (IF own THEN <<>> ELSE <<v>>) \o KeptValues(Tail(values), ns)

\* C7: the step that writes load.json leaves in it the prior values that do
\* not begin with "<namespace>:", verbatim and in order, followed by
\* "<namespace>:<load name>"; the other keys of the file are kept.
C7_LoadTagMerge ==
    [][ pc = "write_load" =>
            LET ns == config.namespace
                ref == ns \o <<":">> \o DataPack.LOAD_NAME
                prior == IF loadTag.file THEN loadTag.json.values ELSE <<>>
            IN  /\ loadTag'.file /\ loadTag'.valid
                /\ loadTag'.json.values = Append(KeptValues(prior, ns), ref)
                /\ \A i \in 1..(Len(loadTag'.json.values) - 1) :
                       ~StartsWith(loadTag'.json.values[i], ns \o <<":">>)
                /\ loadTag.file =>
                       /\ DOMAIN loadTag'.json = DOMAIN loadTag.json
                       /\ \A k \in DOMAIN loadTag.json \ {"values"} :
                              loadTag'.json[k] = loadTag.json[k] ]_vars

\* namespace "a" has been built over a load.json that held values of "a", of
\* "ab" and of another namespace
C7_Witness ==
    /\ pc = "write_tick"
    /\ config.namespace = NS1
    /\ loadTag = JsonFile(
           [values |-> <<E_NS2_FOO, E_OTHER,
                         NS1 \o <<":">> \o DataPack.LOAD_NAME>>,
            replace |-> FALSE])

\* C8: when load.json or tick.json does not parse or lacks "values", build
\* ends with JMCBuildError in the step that reads them and changes no file:
\* both tag files, the namespace directories and pack.mcmeta stay as they are.
C8_BadTagAbortsBeforeWrites ==
    [][ (pc = "build"
            /\ (raises_JMCBuildError(loadTag) \/ raises_JMCBuildError(tickTag))) =>
            /\ pc' = "idle"
            /\ result' = "JMCBuildError"
            /\ fsVars' = fsVars ]_vars

\* a build has been aborted by a malformed tick.json next to a sound load.json
C8_Witness ==
    /\ pc = "idle"
    /\ result = "JMCBuildError"
    /\ log[Len(log)] = "Build_ReadTags"
    /\ tickTag = MalformedJson
    /\ loadTag = JsonFile([values |-> <<E_OTHER, E_NS1_OLD>>])
    /\ ~packMeta.file

(***************************************************************************)
(* Properties of the event binding.                                        *)
(***************************************************************************)
\* the commands of the bindings so far whose criterion, vendor prefix
\* stripped, is k, in declaration order
RECURSIVE CommandsOf(_, _)
CommandsOf(evs, k) ==
    IF evs = <<>> THEN <<>>
    ELSE (IF StripVendor(evs[1].criteria) = k THEN evs[1].commands ELSE <<>>)
             \o CommandsOf(Tail(evs), k)

BoundCriteria ==
    {StripVendor(events[i].criteria) : i \in 1..Len(events)}

\* C9 as stated: for every criterion bound so far there is exactly one
\* objective, exactly one dispatch line and exactly one on_event function,
\* and the body of the function stored for the criterion is the reset of the
\* criterion's objective followed by the commands of all its bindings in
\* declaration order.
C9_OneFunctionWithAllCommands ==
    \A k \in BoundCriteria :
        /\ Cardinality({i \in 1..Len(objectives) :
               objectives[i].criteria = k}) = 1
        /\ Cardinality({i \in 1..Len(tick_commands) :
               tick_commands[i].objective = Objective(k)}) = 1
        /\ Cardinality({i \in 1..Len(functions) :
               functions[i].body[1] = ResetCommand(Objective(k))}) = 1
        /\ CountOf(k) \in DOMAIN private_functions
        /\ functions[private_functions[CountOf(k)]].body =
               <<ResetCommand(Objective(k))>> \o CommandsOf(events, k)

\* C10 as stated: the on_event function of a deduplication key is generated
\* at most once; no second body is generated for a key already used.
C10_GeneratedOncePerKey ==
    \A key \in {functions[i].count : i \in 1..Len(functions)} :
        Cardinality({i \in 1..Len(functions) : functions[i].count = key}) <= 1

(***************************************************************************)
(* Item construction (SpecItems).                                          *)
(***************************************************************************)
IsCreateItem ==
    item_result.fn = "create_item"

IsCreateNewItem ==
    item_result.fn = "create_new_item"

ModifyKeys(modify_nbt) ==
    {modify_nbt[i].key : i \in 1..Len(modify_nbt)}

LoreLines(args) ==
    IF args.lore.given THEN args.lore.lines ELSE <<>>

RawNbt(args) ==
    IF args.nbt.given THEN args.nbt.obj ELSE EmptyDict

StaticLore(args) ==
    \A l \in 1..Len(LoreLines(args)) : ~IsDynamic(LoreLines(args)[l])

StaticText(args) ==
    ~IsDynamic(args.displayName) /\ StaticLore(args)

Collision(nbt, modify_nbt) ==
    ModifyKeys(modify_nbt) \cap DOMAIN nbt

\* the text "lore=[l1,l2,...]" of the formatted lines
LoreComponent(lines) ==
    S_LORE \o Join([i \in 1..Len(lines) |-> FormattedText(lines[i])],
                   <<",">>) \o <<"]">>

\* C11: create_item with an item type that carries the "minecraft:" prefix
\* and a non-empty display name (static texts, no override collision)
\* returns an Item whose item string is the type without the prefix followed
\* at once by "[", the custom_name= component, then, when lore lines are
\* given, "," and the one lore=[...] component, then "]".
C11_PrefixStrippedBracketed ==
    (/\ IsCreateItem
     /\ StartsWith(item_result.args.itemType, S_MINECRAFT_COLON)
     /\ item_result.args.displayName # <<>>
     /\ StaticText(item_result.args)
     /\ Collision(RawNbt(item_result.args), item_result.modify_nbt) = {})
    => /\ item_result.out.kind = "Item"
       /\ S_MINECRAFT_COLON \o item_result.out.item.item_type =
              item_result.args.itemType
              \o <<"[">>
              \o S_CUSTOM_NAME \o FormattedText(item_result.args.displayName)
              \o (IF LoreLines(item_result.args) # <<>>
                  THEN <<",">> \o LoreComponent(LoreLines(item_result.args))
                  ELSE <<>>)
              \o <<"]">>

C11_Witness ==
    /\ IsCreateItem
    /\ item_result.args.itemType = S_MINECRAFT_COLON \o S_STICK
    /\ item_result.args.displayName = <<"E">>
    /\ Len(LoreLines(item_result.args)) = 2
    /\ item_result.out.kind = "Item"
    /\ SubSeq(item_result.out.item.item_type, 1, 6) = S_STICK \o <<"[">>

\* C12: an override key that is already in the NBT being built on is a value
\* error: create_new_item raises it when a key of modify_nbt is in the copied
\* item's NBT, create_item when a key of modify_nbt is in the parsed raw NBT
\* object; the error names a conflicting key (in create_item once the lore
\* lines have passed the formatter), no Item is returned, and the item
\* copied from is as it was before the call.
C12_OverrideCollisionIsValueError ==
    /\ (/\ IsCreateNewItem
        /\ Collision(item_result.item.raw_nbt, item_result.modify_nbt) # {})
       => /\ item_result.out.kind = "JMCValueError"
          /\ "key" \in DOMAIN item_result.out.message
          /\ item_result.out.message.key \in
                 Collision(item_result.item.raw_nbt, item_result.modify_nbt)
          /\ item_result.item_after = item_result.item
          /\ source = NoItem
    /\ (/\ IsCreateItem
        /\ Collision(RawNbt(item_result.args), item_result.modify_nbt) # {})
       => /\ item_result.out.kind = "JMCValueError"
          /\ source = NoItem
          /\ StaticLore(item_result.args)
             => /\ "key" \in DOMAIN item_result.out.message
                /\ item_result.out.message.key \in
                       Collision(RawNbt(item_result.args),
                                 item_result.modify_nbt)

C12_Witness ==
    /\ IsCreateNewItem
    /\ "k" \in DOMAIN item_result.item.raw_nbt
    /\ item_result.modify_nbt = <<[key |-> "j", value |-> Token("m2")],
                                  [key |-> "k", value |-> Token("m1")]>>
    /\ item_result.out.kind = "JMCValueError"
    /\ item_result.out.message.key = "k"

\* the case of C13: create_item on raw NBT that defines custom_name or lore,
\* with a non-empty display name or lore lines, static texts and no override
\* key that is in the raw NBT
C13_Case ==
    /\ IsCreateItem
    /\ item_result.args.nbt.given
    /\ {"custom_name", "lore"} \cap DOMAIN item_result.args.nbt.obj # {}
    /\ \/ item_result.args.displayName # <<>>
       \/ LoreLines(item_result.args) # <<>>
    /\ StaticText(item_result.args)
    /\ Collision(RawNbt(item_result.args), item_result.modify_nbt) = {}

\* C13 as stated: in that case an Item is returned whose structured NBT has
\* neither the key custom_name nor the key lore, and has every other raw NBT
\* key and every override key with its token.
C13_EveryOverrideKeyKept ==
    C13_Case
    => /\ item_result.out.kind = "Item"
       /\ {"custom_name", "lore"} \cap
              DOMAIN item_result.out.item.raw_nbt = {}
       /\ \A k \in DOMAIN item_result.args.nbt.obj \ {"custom_name", "lore"} :
              /\ k \in DOMAIN item_result.out.item.raw_nbt
              /\ item_result.out.item.raw_nbt[k] = item_result.args.nbt.obj[k]
       /\ \A i \in 1..Len(item_result.modify_nbt) :
              /\ item_result.modify_nbt[i].key \in
                     DOMAIN item_result.out.item.raw_nbt
              /\ item_result.out.item.raw_nbt[item_result.modify_nbt[i].key] =
                     item_result.modify_nbt[i].value

\* C13, amended: in that case an Item is returned whose structured NBT has
\* neither the key custom_name nor the key lore, whether the entry came from
\* the raw NBT or from an override, and has every other raw NBT key and every
\* other override key with its token, and no further key.
C13_NameAndLoreKeysDropped ==
    C13_Case
    => /\ item_result.out.kind = "Item"
       /\ DOMAIN item_result.out.item.raw_nbt =
              (DOMAIN item_result.args.nbt.obj
                   \cup ModifyKeys(item_result.modify_nbt))
              \ {"custom_name", "lore"}
       /\ \A k \in DOMAIN item_result.args.nbt.obj \ {"custom_name", "lore"} :
              item_result.out.item.raw_nbt[k] = item_result.args.nbt.obj[k]
       /\ \A i \in 1..Len(item_result.modify_nbt) :
              item_result.modify_nbt[i].key \notin {"custom_name", "lore"}
              => item_result.out.item.raw_nbt[item_result.modify_nbt[i].key] =
                     item_result.modify_nbt[i].value
       /\ item_result.out.item.nbt =
              token_dict_to_raw_js_object(item_result.out.item.raw_nbt)

C13_Witness ==
    /\ IsCreateItem
    /\ item_result.args.nbt.given
    /\ DOMAIN item_result.args.nbt.obj = {"lore"}
    /\ item_result.args.displayName = <<"E">>
    /\ Len(LoreLines(item_result.args)) = 1
    /\ item_result.modify_nbt = <<[key |-> "j", value |-> Token("m2")],
                                  [key |-> "k", value |-> Token("m1")]>>
    /\ item_result.out.kind = "Item"
    /\ DOMAIN item_result.out.item.raw_nbt = {"j", "k"}

\* C14 as stated: create_item returns an Item for every combination of given
\* and absent display name, lore and raw NBT (static texts, no override
\* collision); with neither a display name nor lore lines the item string is
\* the prefix-stripped type with no bracket suffix and the structured NBT is
\* the raw NBT plus the overrides.
C14_ItemForEveryCombination ==
    (/\ IsCreateItem
     /\ StaticText(item_result.args)
     /\ Collision(RawNbt(item_result.args), item_result.modify_nbt) = {})
    => /\ item_result.out.kind = "Item"
       /\ (item_result.args.displayName = <<>>
           /\ LoreLines(item_result.args) = <<>>)
          => /\ item_result.out.item.item_type = S_STICK
             /\ item_result.out.item.raw_nbt =
                    Overlay(RawNbt(item_result.args), item_result.modify_nbt)

(***************************************************************************)
(* The tag files and the namespace directory after a build (Spec).         *)
(***************************************************************************)
\* C15 as stated: once build is past the tick.json step, tick.json holds no
\* entry that begins with "<namespace>:" other than, as last element, the
\* tick reference this build appended, whether or not the compilation has a
\* non-empty tick function.
C15_TickTagStripped ==
    (pc = "write_functions" /\ tickTag.file)
    => LET ns == config.namespace
           v == tickTag.json.values
       IN  \A i \in 1..Len(v) :
               StartsWith(v[i], ns \o <<":">>)
               => /\ i = Len(v)
                  /\ v[i] = ns \o <<":">> \o DataPack.TICK_NAME
                  /\ DataPack.TICK_NAME \in DOMAIN datapack.functions
                  /\ datapack.functions[DataPack.TICK_NAME] # <<>>

(***************************************************************************)
(* Event bindings, continued (SpecEvents).                                 *)
(***************************************************************************)
\* C16: a binding to a criterion that was bound before appends its commands
\* at the end of the body of the function stored for the criterion's key and
\* changes nothing else: the objectives, the dispatch list, the map of
\* private functions and every other function stay as they are, and the
\* first command of the body is still the same command, the reset of the
\* score of an objective of the datapack.
C16_RebindAppendsOnly ==
    [][ (/\ Len(events') = Len(events) + 1
         /\ ~is_never_used(StripVendor(events'[Len(events')].criteria))) =>
            LET e == events'[Len(events')]
                f == private_functions[CountOf(StripVendor(e.criteria))]
            IN  /\ functions'[f].body = functions[f].body \o e.commands
                /\ functions'[f].count = functions[f].count
                /\ Len(functions') = Len(functions)
                /\ \A g \in 1..Len(functions) :
                       g # f => functions'[g] = functions[g]
                /\ objectives' = objectives
                /\ tick_commands' = tick_commands
                /\ private_functions' = private_functions
                /\ functions'[f].body[1] = functions[f].body[1]
                /\ \E i \in 1..Len(objectives') :
                       functions'[f].body[1] =
                           ResetCommand(objectives'[i].name) ]_vars

\* criterion "f" has been bound twice, after another criterion
C16_Witness ==
    /\ Len(events) = 3
    /\ events[1].criteria = <<"c">>
    /\ events[2] = [criteria |-> <<"f">>, commands |-> <<[cmd |-> "c1"]>>]
    /\ events[3] = [criteria |-> <<"f">>, commands |-> <<[cmd |-> "c2"]>>]
    /\ functions[private_functions[<<"f">>]].body =
           <<ResetCommand(Objective(<<"f">>)), [cmd |-> "c1"], [cmd |-> "c2"]>>
    /\ Len(tick_commands) = 2

\* the criteria of the bindings, vendor prefix stripped, each once, in the
\* order of their first binding
RECURSIVE FirstBound(_, _)
FirstBound(evs, seen) ==
    IF evs = <<>> THEN <<>>
    ELSE LET k == StripVendor(evs[1].criteria)
         IN  IF k \in seen THEN FirstBound(Tail(evs), seen)
             ELSE <<k>> \o FirstBound(Tail(evs), seen \cup {k})

\* C17 as stated: the dispatch list holds one line per distinct criterion,
\* in the order of the criteria's first bindings, and each line tests the
\* objective of its criterion and runs the function registered for that
\* objective: the function its call names is the one whose body resets the
\* objective the line tests.
C17_DispatchPerCriterion ==
    LET firsts == FirstBound(events, {})
    IN  /\ Len(tick_commands) = Len(firsts)
        /\ \A i \in 1..Len(tick_commands) :
               /\ i <= Len(firsts)
               /\ tick_commands[i].objective = Objective(firsts[i])
               /\ tick_commands[i].func_call.count \in DOMAIN private_functions
               /\ functions[private_functions[
                      tick_commands[i].func_call.count]].body[1] =
                      ResetCommand(tick_commands[i].objective)

C19_NeverLockedOut ==
    /\ \A n \in Namespaces :
           written[n] # EmptyDict
           => (~folder[n].dir \/ folder[n].cert.file)
    /\ (pc = "idle" /\ log = <<"ReadCert_NoCert">>)
       => written[config.namespace] = EmptyDict
    /\ (pc = "idle" /\ result \in {"JMCError", "JMCBuildError"}
            /\ "make_cert" \in Range(log))
       => Target = CertOnly(cert_config_to_string(written[config.namespace]))

\* the second compile into a namespace was aborted by a syntax or value error
\* after it had deleted the output found there
C19_Witness ==
    /\ pc = "idle"
    /\ compiles = 2
    /\ result = "JMCError"
    /\ log = <<"ReadCert_Read", "ReadCert_Rmtree", "make_cert", "LexError">>
    /\ packMeta = File([pack_format |-> <<"7">>,
                        description |-> config.namespace])
    /\ Target = CertOnly(cert_config_to_string(written[config.namespace]))

\* C20: the build step that writes load.json over a file whose only entry
\* beginning with "<namespace>:" is the current load reference, as last
\* element, leaves the file's content as it is; and after the step the file
\* holds exactly one entry beginning with "<namespace>:", the load reference,
\* as last element.
C20_RebuildKeepsLoadTag ==
    [][ pc = "write_load" =>
            LET p == config.namespace \o <<":">>
                ref == p \o DataPack.LOAD_NAME
                own(v) == {i \in 1..Len(v) : StartsWith(v[i], p)}
            IN  /\ own(loadTag'.json.values) = {Len(loadTag'.json.values)}
                /\ loadTag'.json.values[Len(loadTag'.json.values)] = ref
                /\ (/\ loadTag.file
                    /\ own(loadTag.json.values) = {Len(loadTag.json.values)}
                    /\ loadTag.json.values[Len(loadTag.json.values)] = ref)
                   => loadTag' = loadTag ]_vars

\* namespace "a" is being built a second time after a successful build of it
C20_Witness ==
    /\ pc = "write_tick"
    /\ compiles = 2
    /\ config.namespace = NS1
    /\ packMeta = File([pack_format |-> <<"7">>, description |-> NS1])
    /\ "ReadCert_Rmtree" \in Range(log)
    /\ loadTag = JsonFile([values |->
           <<E_OTHER, NS1 \o <<":">> \o DataPack.LOAD_NAME>>])

====
